---- MODULE Spec2Model ----
(***************************************************************************)
(* Multiresolution hash-grid encoding of wisp/ops/grid.py:                 *)
(*   hashgrid_naive                 the reference encoder (lines 25-84)    *)
(*   HashGridInterpolate.forward    the accelerated forward (lines 91-109) *)
(*   HashGridInterpolate.backward   the accelerated backward (113-127)     *)
(*   hashgrid                       the accelerated entry point (129-147)  *)
(*                                                                         *)
(* Numbers.  A coordinate component n stands for the real n / CoordDen.    *)
(* Grid positions (tf_coords, x, _x) are fixed point with UNIT quanta per  *)
(* grid cell; UNIT is a multiple of 2 * CoordDen, so ((c + 1) / 2) * res   *)
(* is exact.  The 1e-5 of line 49 is EPS, one quantum: every transformed   *)
(* coordinate is an even number of quanta, so like 1e-5 for the modelled   *)
(* inputs it is smaller than every distance between a transformed          *)
(* coordinate and a grid vertex.  A trilinear weight is a product of       *)
(* three offsets, in units of 1 / UNIT^3, and features are integers.       *)
(***************************************************************************)
EXTENDS Integers, Sequences, FiniteSets, TLC

VARIABLES
  \* the arguments of a call
  coords, resolutions, codebook_bitwidth, lod_idx, codebook,
  codebook_lod_sizes, codebook_lod_first_idx,
  \* autograd's view of the call: requires_grad of the 7 inputs, upstream gradient
  needs_input_grad, grad_output,
  \* hashgrid_naive: position, loop index, feats list, locals of the last
  \* iteration, returned tensor, and the tensor an earlier call returned
  pc, i, feats, lvl, out, prev_out,
  \* hashgrid / HashGridInterpolate: position, saved ctx, kernels invoked,
  \* returned tensor
  hg_pc, ctx, kernel_log, hg_out,
  \* backward: position, units of the scatter still to run, gradient buffer,
  \* returned codebook gradient
  bwd_pc, pending, grad_buf, grad_codebook

args == <<coords, resolutions, codebook_bitwidth, lod_idx, codebook,
          codebook_lod_sizes, codebook_lod_first_idx>>
autograd == <<needs_input_grad, grad_output>>
naive == <<pc, i, feats, lvl, out, prev_out>>
accel == <<hg_pc, ctx, kernel_log, hg_out>>
bwd == <<bwd_pc, pending, grad_buf, grad_codebook>>
vars == <<args, autograd, naive, accel, bwd>>

---------------------------------------------------------------------------
\* Bounds of the model.
MaxRes == 3
MaxLods == 2
MaxBitwidth == 3
MaxFeat == 2
MaxBatch == 2
CoordDen == 4

UNIT == 4 * CoordDen
EPS == 1
\* No tensor (a variable not yet assigned), no level evaluated, nothing saved,
\* and no error.
None == <<>>
NoLevel == [level |-> -1]
NoCtx == [saved |-> FALSE]
NoError == "none"

---------------------------------------------------------------------------
\* Arithmetic helpers.
Min2(a, b) == IF a < b THEN a ELSE b
Max2(a, b) == IF a > b THEN a ELSE b

RECURSIVE Pow(_, _)
Pow(b, e) == IF e = 0 THEN 1 ELSE b * Pow(b, e - 1)

\* Bitwise exclusive or of two naturals (Python ^ on non-negative longs).
RECURSIVE Xor(_, _)
Xor(a, b) ==
  IF a = 0 THEN b
  ELSE IF b = 0 THEN a
  ELSE (((a % 2) + (b % 2)) % 2) + 2 * Xor(a \div 2, b \div 2)

RECURSIVE SumSeq(_)
SumSeq(s) == IF s = <<>> THEN 0 ELSE Head(s) + SumSeq(Tail(s))

\* A function on 1..n as the tuple of its values.
AsSeq(f) == f \o <<>>

RECURSIVE Flatten(_)
Flatten(ss) == IF ss = <<>> THEN <<>> ELSE Head(ss) \o Flatten(Tail(ss))

\* torch.clip(v, lo, hi): min(max(v, lo), hi); when lo > hi the result is hi.
Clip(v, lo, hi) == Min2(Max2(v, lo), hi)

\* PRIMES = [1, 2654435761, 805459861], each as <<low, high>> 16-bit limbs
\* (value = low + 65536 * high): the products of line 56 need 64 bits, the
\* limbs fit 32.
PRIMES == << <<1, 0>>, <<31153, 40503>>, <<22421, 12290>> >>

\* (c * p) % m for a natural c and a prime p given by its limbs.
MulMod(c, p, m) == (((c * p[1]) % m) + ((c * p[2]) % m) * (65536 % m)) % m

---------------------------------------------------------------------------
\* One iteration of the loop of hashgrid_naive, lines 47-81.

\* line 49, one component: clip(((c + 1.0) / 2.0) * res, 0, res - 1 - 1e-5)
TfCoord(c, res) ==
  Clip(((c + CoordDen) * res * UNIT) \div (2 * CoordDen), 0, (res - 1) * UNIT - EPS)

tf_coords(p, res) == [a \in 1..3 |-> TfCoord(p[a], res)]

\* line 50: torch.floor(tf_coords).short()
cc000(tf) == [a \in 1..3 |-> tf[a] \div UNIT]

\* line 51: spc_ops.points_to_corners (kaolin): corner k of a point is the
\* point plus (k >> 2 & 1, k >> 1 & 1, k & 1), k = 0..7 (here 1..8).
points_to_corners(c) ==
  [k \in 1..8 |-> << c[1] + ((k - 1) \div 4),
                     c[2] + (((k - 1) \div 2) % 2),
                     c[3] + ((k - 1) % 2) >>]

\* Mutant of Hashed: the boundary res^3 = codebook_size goes to the hash.
Hashed_AtBoundary(res, codebook_size) == Pow(res, 3) >= codebook_size

\* line 54: the regime of a level
Hashed(res, codebook_size) == Pow(res, 3) > codebook_size

\* lines 55-57: (cx*P0 ^ cy*P1 ^ cz*P2) % codebook_size.  codebook_size is
\* 2^bitwidth, so the low bits of the xor are the xor of the low bits.
HashIdx(v, codebook_size) ==
  Xor(Xor(MulMod(v[1], PRIMES[1], codebook_size),
          MulMod(v[2], PRIMES[2], codebook_size)),
      MulMod(v[3], PRIMES[3], codebook_size)) % codebook_size

\* line 59
DenseIdx(v, res) == v[1] + v[2] * res + v[3] * res * res

\* lines 53-59
Cidx(v, res, codebook_size) ==
  IF Hashed(res, codebook_size) THEN HashIdx(v, codebook_size) ELSE DenseIdx(v, res)

\* Mutant of Coeffs: the weights of corners 1 and 4 (001 and 100) exchanged.
Coeffs_AxesSwapped(x) ==
  LET nx == [a \in 1..3 |-> UNIT - x[a]] IN
  << nx[1] * nx[2] * nx[3],
     x[1] * nx[2] * nx[3],
     nx[1] * x[2] * nx[3],
     nx[1] * x[2] * x[3],
     nx[1] * nx[2] * x[3],
     x[1] * nx[2] * x[3],
     x[1] * x[2] * nx[3],
     x[1] * x[2] * x[3] >>

\* lines 66-77: the 8 trilinear coefficients of one sample, from x = tf - cc000
Coeffs(x) ==
  LET nx == [a \in 1..3 |-> UNIT - x[a]] IN
  << nx[1] * nx[2] * nx[3],
     nx[1] * nx[2] * x[3],
     nx[1] * x[2] * nx[3],
     nx[1] * x[2] * x[3],
     x[1] * nx[2] * nx[3],
     x[1] * nx[2] * x[3],
     x[1] * x[2] * nx[3],
     x[1] * x[2] * x[3] >>

\* line 62, the slice codebook[first : first + size] (0-based, clamped to the
\* codebook like a Python slice), as the sequence of its rows
Segment(cb, first, size) ==
  LET lo == Min2(Max2(first, 0), Len(cb))
      hi == Min2(Max2(first + size, lo), Len(cb))
  IN  SubSeq(cb, lo + 1, hi)

\* line 62, indexing a segment with one index: a negative index counts from
\* the end, an index outside [-len, len) is an IndexError
IndexOk(seg, idx) == idx >= -Len(seg) /\ idx < Len(seg)
Gather(seg, idx) == IF idx < 0 THEN seg[Len(seg) + idx + 1] ELSE seg[idx + 1]

\* line 80, one sample: (fs * coeffs).sum(1)
WeightedSum(fs, cf) ==
  AsSeq([j \in 1..Len(fs[1]) |-> SumSeq(AsSeq([k \in 1..8 |-> fs[k][j] * cf[k]]))])

\* The locals of iteration lv (0-based) with resolution res, for the batch cs.
LevelLocals(cs, lv, res, bitwidth, cb, sizes, first_idx) ==
  LET codebook_size == Pow(2, bitwidth)
      B == 1..Len(cs)
      tf == AsSeq([b \in B |-> AsSeq(tf_coords(cs[b], res))])
      c0 == AsSeq([b \in B |-> AsSeq(cc000(tf[b]))])
      cc == AsSeq([b \in B |-> AsSeq(points_to_corners(c0[b]))])
      cidx == AsSeq([b \in B |->
                AsSeq([k \in 1..8 |-> Cidx(cc[b][k], res, codebook_size)])])
      x == AsSeq([b \in B |-> AsSeq([a \in 1..3 |-> tf[b][a] - c0[b][a] * UNIT])])
      cf == AsSeq([b \in B |-> Coeffs(x[b])])
      meta == lv + 1 <= Len(first_idx) /\ lv + 1 <= Len(sizes)
      seg == IF meta THEN Segment(cb, first_idx[lv + 1], sizes[lv + 1]) ELSE <<>>
      ok == meta /\ \A b \in B : \A k \in 1..8 : IndexOk(seg, cidx[b][k])
  IN  [ level |-> lv, res |-> res, tf_coords |-> tf, cc000 |-> c0, cc |-> cc,
        cidx |-> cidx, size |-> Len(seg),
        x |-> x, coeffs |-> cf,
        error |-> IF ok THEN NoError ELSE "IndexError",
        fs_coeffs |-> IF ok
                      THEN AsSeq([b \in B |->
                              WeightedSum(AsSeq([k \in 1..8 |-> Gather(seg, cidx[b][k])]),
                                          cf[b])])
                      ELSE <<>> ]

\* Mutant of Cat: the levels concatenated from the last to the first.
Cat_Descending(fl) ==
  [b \in 1..Len(fl[1]) |-> Flatten([l \in 1..Len(fl) |-> fl[Len(fl) + 1 - l][b]])]

\* line 84: torch.cat(feats, -1): per sample, the levels' features in order
Cat(fl) == [b \in 1..Len(fl[1]) |-> Flatten([l \in 1..Len(fl) |-> fl[l][b]])]

\* line 47: resolutions[:lod_idx+1], a Python slice
LevelsOf(res, lod) == SubSeq(res, 1, Min2(lod + 1, Len(res)))

---------------------------------------------------------------------------
\* The inputs of a call (docstring, lines 32-39).

\* codebook_lod_sizes of a well-formed call: min(res^3, 2^bitwidth) per level
LodSizes(res, bitwidth) ==
  [l \in 1..Len(res) |-> Min2(Pow(res[l], 3), Pow(2, bitwidth))]

\* codebook_lod_first_idx of a well-formed call: the segments back to back
LodFirstIdx(sizes) ==
  [l \in 1..Len(sizes) |-> SumSeq(SubSeq(sizes, 1, l - 1))]

\* Stacked codebooks of n rows and width F; every entry of a codebook is
\* different from every other, so a gathered row tells its slot.
MakeCodebook(n, F) == [s \in 1..n |-> [j \in 1..F |-> (s - 1) * F + j]]

\* Coordinate components: below -1, -1, an interior value, 1, above 1.
CoordVals == {-(CoordDen + 1), -CoordDen, -1, CoordDen, CoordDen + 1}
Points == {<<a, b, c>> : a \in CoordVals, b \in CoordVals, c \in CoordVals}

NoGrad == [k \in 1..7 |-> FALSE]

\* <<lod_idx, metadata length>> of the calls on L levels: the well-formed ones,
\* lod_idx = L, and metadata of L - 1 entries (calls whose arguments disagree).
NaiveShapes(L) == {<<k, L>> : k \in 0..L} \cup {<<L - 1, L - 1>>}
AccelShapes(L) == {<<k, L>> : k \in 0..L}
ScatterShapes(L) == {<<L - 1, L>>}

\* The schedules of 1..lods levels over the resolutions ress, finer levels
\* following coarser ones.
Schedules(ress, lods) ==
  {r \in UNION {[1..l -> ress] : l \in 1..lods} :
     \A l \in 1..(Len(r) - 1) : r[l] <= r[l + 1]}

\* Arguments: a batch, a schedule, a bitwidth, lod_idx and the length of the
\* segment metadata as shapes[L] gives them; the codebook and the full
\* metadata follow the data model.
InitArgs(batches, schedules, shapes) ==
  /\ coords \in batches
  /\ resolutions \in schedules
  /\ codebook_bitwidth \in (MaxBitwidth - 1)..MaxBitwidth
  /\ \E sh \in shapes[Len(resolutions)] :
       LET sizes == LodSizes(resolutions, codebook_bitwidth) IN
       /\ lod_idx = sh[1]
       /\ codebook_lod_sizes = SubSeq(sizes, 1, sh[2])
       /\ codebook_lod_first_idx = SubSeq(LodFirstIdx(sizes), 1, sh[2])
  /\ \E F \in (MaxFeat - 1)..MaxFeat :
       codebook = MakeCodebook(SumSeq(LodSizes(resolutions, codebook_bitwidth)), F)

NaiveIdle == pc = "idle" /\ i = 0 /\ feats = <<>> /\ lvl = NoLevel /\ out = None /\ prev_out = None
AccelIdle == hg_pc = "idle" /\ ctx = NoCtx /\ kernel_log = <<>> /\ hg_out = None
BwdIdle == bwd_pc = "idle" /\ pending = {} /\ grad_buf = None /\ grad_codebook = None

\* The arguments agree: lod_idx names a level and the metadata has one entry per level.
WellFormed ==
  /\ lod_idx < Len(resolutions)
  /\ Len(codebook_lod_sizes) = Len(resolutions)
  /\ Len(codebook_lod_first_idx) = Len(resolutions)

---------------------------------------------------------------------------
\* hashgrid_naive, lines 44-84.

\* One iteration of the loop, lines 47-81; an IndexError of line 62 ends the call.
NaiveLevel ==
  /\ pc = "loop"
  /\ i < Len(LevelsOf(resolutions, lod_idx))
  /\ LET l == LevelLocals(coords, i, LevelsOf(resolutions, lod_idx)[i + 1],
                          codebook_bitwidth, codebook, codebook_lod_sizes,
                          codebook_lod_first_idx)
     IN  /\ lvl' = l
         /\ IF l.error = NoError
            THEN /\ feats' = Append(feats, l.fs_coeffs)
                 /\ i' = i + 1
                 /\ pc' = "loop"
            ELSE /\ pc' = "raised"
                 /\ UNCHANGED <<feats, i>>
  /\ UNCHANGED <<args, autograd, out, prev_out, accel, bwd>>

\* line 84
NaiveReturn ==
  /\ pc = "loop"
  /\ i = Len(LevelsOf(resolutions, lod_idx))
  /\ out' = Cat(feats)
  /\ pc' = "returned"
  /\ UNCHANGED <<args, autograd, i, feats, lvl, prev_out, accel, bwd>>

\* The caller encodes the same inputs again, one level of detail higher.
NaiveRecall ==
  /\ pc = "returned"
  /\ lod_idx + 1 < Len(resolutions)
  /\ lod_idx' = lod_idx + 1
  /\ prev_out' = out
  /\ pc' = "loop" /\ i' = 0 /\ feats' = <<>> /\ lvl' = NoLevel /\ out' = None
  /\ UNCHANGED <<coords, resolutions, codebook_bitwidth, codebook,
                 codebook_lod_sizes, codebook_lod_first_idx, autograd, accel, bwd>>

InitNaive ==
  /\ InitArgs({<<p>> : p \in Points}, Schedules(1..MaxRes, MaxLods),
              [L \in 1..MaxLods |-> NaiveShapes(L)])
  /\ needs_input_grad = NoGrad /\ grad_output = None
  /\ pc = "loop" /\ i = 0 /\ feats = <<>> /\ lvl = NoLevel /\ out = None /\ prev_out = None
  /\ AccelIdle /\ BwdIdle

NextNaive == NaiveLevel \/ NaiveReturn \/ NaiveRecall

SpecNaive == InitNaive /\ [][NextNaive]_vars

---------------------------------------------------------------------------
\* The accelerated path: hashgrid, HashGridInterpolate and the two kernels of
\* wisp._C.ops.  The kernels are not part of grid.py; they are modelled from
\* the design (sections 4.4 to 4.6 and 6): the same mathematics as the
\* reference encoder over every level of the schedule they are given.

FeatDim(cb) == Len(cb[1])

\* The levels as the kernels see them: resolutions, bitwidth, first_idx; the
\* capacity of a segment follows from the regime.
KernelLevels(cs, cb, first_idx, res, bitwidth) ==
  AsSeq([l \in 1..Len(res) |->
     LevelLocals(cs, l - 1, res[l], bitwidth, cb, LodSizes(res, bitwidth), first_idx)])

\* wisp_C.ops.hashgrid_interpolate_cuda: the features of all the levels of
\* res, sample after sample, as one contiguous buffer.
hashgrid_interpolate_cuda(cs, cb, first_idx, res, bitwidth) ==
  LET lv == KernelLevels(cs, cb, first_idx, res, bitwidth)
  IN  Flatten([b \in 1..Len(cs) |-> Flatten([l \in 1..Len(res) |-> lv[l].fs_coeffs[b]])])

\* The units of work of the backward kernel: <<sample, level, corner>>.
Units(cs, res) ==
  {<<b, l, k>> : b \in 1..Len(cs), l \in 1..Len(res), k \in 1..8}

\* The flat codebook slot (0-based) a unit adds to, and what it adds:
\* weight_k x the slice of grad_output of its sample and level.
UnitSlot(lv, first_idx, u) == first_idx[u[2]] + lv[u[2]].cidx[u[1]][u[3]]
UnitTerm(lv, g, F, u) ==
  [j \in 1..F |-> lv[u[2]].coeffs[u[1]][u[3]] * g[u[1]][(u[2] - 1) * F + j]]

ZeroGrad(cb) == [s \in 1..Len(cb) |-> [j \in 1..FeatDim(cb) |-> 0]]

\* One atomic accumulate of a unit into the gradient buffer.
AtomicAdd(buf, slot, term) ==
  [buf EXCEPT ![slot + 1] = [j \in 1..Len(term) |-> @[j] + term[j]]]

\* Every unit of todo accumulated into buf, one after the other.
RECURSIVE Scatter(_, _, _, _, _, _)
Scatter(buf, todo, lv, first_idx, g, F) ==
  IF todo = {} THEN buf
  ELSE LET u == CHOOSE v \in todo : TRUE
       IN  Scatter(AtomicAdd(buf, UnitSlot(lv, first_idx, u), UnitTerm(lv, g, F, u)),
                   todo \ {u}, lv, first_idx, g, F)

\* wisp_C.ops.hashgrid_interpolate_backward_cuda: an all-zero buffer at once
\* when its last argument is false, else every unit accumulated into it.
hashgrid_interpolate_backward_cuda(cs, g, cb, first_idx, res, bitwidth, F, flag) ==
  IF flag
  THEN Scatter(ZeroGrad(cb), Units(cs, res),
               KernelLevels(cs, cb, first_idx, res, bitwidth), first_idx, g, F)
  ELSE ZeroGrad(cb)

\* Mutant of forward: the parity check of line 92 left out.
forward_NoParityCheck(cs, res, bitwidth, lod, cb, sizes, first_idx) ==
  [ raised |-> FALSE,
    kernels |-> <<"hashgrid_interpolate_cuda">>,
    feats_out |-> hashgrid_interpolate_cuda(cs, cb, first_idx, res, bitwidth),
    ctx |-> [ saved |-> TRUE, coords |-> cs, codebook |-> cb,
              codebook_first_idx |-> first_idx, resolutions |-> res,
              num_lods |-> Len(res), codebook_size |-> Pow(2, bitwidth),
              codebook_bitwidth |-> bitwidth, feature_dim |-> FeatDim(cb) ] ]

\* HashGridInterpolate.forward, lines 91-109: what it raises, the kernels it
\* invokes, what it saves on ctx and what it returns.  lod and sizes are not
\* used by the code.  The cast of the inputs to half precision (custom_fwd)
\* changes no shape and is left to the numeric policy.
forward(cs, res, bitwidth, lod, cb, sizes, first_idx) ==
  IF FeatDim(cb) % 2 = 1
  THEN [ raised |-> TRUE, kernels |-> <<>>, ctx |-> NoCtx, feats_out |-> None ]
  ELSE [ raised |-> FALSE,
         kernels |-> <<"hashgrid_interpolate_cuda">>,
         feats_out |-> hashgrid_interpolate_cuda(cs, cb, first_idx, res, bitwidth),
         ctx |-> [ saved |-> TRUE, coords |-> cs, codebook |-> cb,
                   codebook_first_idx |-> first_idx, resolutions |-> res,
                   num_lods |-> Len(res), codebook_size |-> Pow(2, bitwidth),
                   codebook_bitwidth |-> bitwidth, feature_dim |-> FeatDim(cb) ] ]

\* line 126: the last argument of the backward kernel, ctx.needs_input_grad[0]
KernelFlag(nig) == nig[1]

\* HashGridInterpolate.backward, lines 113-127: the 7 gradients it returns.
\* nig is ctx.needs_input_grad, one flag per input of forward (coords first,
\* codebook fifth).
backward(c, g, nig) ==
  LET grad == hashgrid_interpolate_backward_cuda(
                c.coords, g, c.codebook, c.codebook_first_idx, c.resolutions,
                c.codebook_bitwidth, c.feature_dim, KernelFlag(nig))
  IN  <<None, None, None, None, grad, None, None>>

\* line 147: feats.reshape(batch, feature_dim)
ReshapeOk(flat, batch, feature_dim) == Len(flat) = batch * feature_dim
Reshape(flat, batch, feature_dim) ==
  [b \in 1..batch |-> SubSeq(flat, (b - 1) * feature_dim + 1, b * feature_dim)]

\* hashgrid, lines 142-147.
hashgrid ==
  /\ hg_pc = "start"
  /\ LET batch == Len(coords)
         r == forward(coords, resolutions, codebook_bitwidth, lod_idx, codebook,
                      codebook_lod_sizes, codebook_lod_first_idx)
         feature_dim == FeatDim(codebook) * Len(resolutions)
     IN  IF r.raised
         THEN /\ hg_pc' = "raised"
              /\ UNCHANGED <<ctx, kernel_log, hg_out>>
         ELSE /\ ctx' = r.ctx
              /\ kernel_log' = kernel_log \o r.kernels
              /\ IF ReshapeOk(r.feats_out, batch, feature_dim)
                 THEN hg_out' = Reshape(r.feats_out, batch, feature_dim) /\ hg_pc' = "returned"
                 ELSE hg_out' = hg_out /\ hg_pc' = "raised"
  /\ UNCHANGED <<args, autograd, naive, bwd>>

\* Upstream gradients of the shape of the output: all ones, and a ramp.
GradOutputs(batch, width) ==
  { [b \in 1..batch |-> [c \in 1..width |-> 1]],
    [b \in 1..batch |-> [c \in 1..width |-> b + c]] }

\* autograd runs backward on the output of a call that has an input
\* requiring a gradient.
BackwardEnabled ==
  /\ hg_pc = "returned"
  /\ bwd_pc = "idle"
  /\ \E k \in 1..7 : needs_input_grad[k]

\* HashGridInterpolate.backward as one step (the kernel call is synchronous).
HashGridBackward ==
  /\ BackwardEnabled
  /\ \E g \in GradOutputs(Len(hg_out), Len(hg_out[1])) :
       /\ grad_output' = g
       /\ grad_codebook' = backward(ctx, g, needs_input_grad)[5]
  /\ kernel_log' = Append(kernel_log, "hashgrid_interpolate_backward_cuda")
  /\ bwd_pc' = "done"
  /\ UNCHANGED <<args, needs_input_grad, naive, hg_pc, ctx, hg_out, pending, grad_buf>>

\* Two samples: a grid vertex, and a point off the diagonal with one
\* component out of range.
AccelPoints == { <<-CoordDen, -CoordDen, -CoordDen>>, <<-1, 2, CoordDen + 1>> }

\* requires_grad of the inputs: only coords and codebook are tensors that can
\* require one.
GradFlags == {[k \in 1..7 |-> IF k = 1 THEN a ELSE IF k = 5 THEN b ELSE FALSE] :
                a \in BOOLEAN, b \in BOOLEAN}

InitAccel ==
  /\ InitArgs(UNION {[1..n -> AccelPoints] : n \in 1..MaxBatch},
              Schedules(2..MaxRes, MaxLods), [L \in 1..MaxLods |-> AccelShapes(L)])
  /\ needs_input_grad \in GradFlags /\ grad_output = None
  /\ NaiveIdle
  /\ hg_pc = "start" /\ ctx = NoCtx /\ kernel_log = <<>> /\ hg_out = None
  /\ BwdIdle

NextAccel == hashgrid \/ HashGridBackward

SpecAccel == InitAccel /\ [][NextAccel]_vars

---------------------------------------------------------------------------
\* The backward pass with the kernel's units of work running concurrently:
\* the launch, one atomic accumulate per unit in any order, and the return.

SavedLevels ==
  KernelLevels(ctx.coords, ctx.codebook, ctx.codebook_first_idx, ctx.resolutions,
               ctx.codebook_bitwidth)

BackwardLaunch ==
  /\ BackwardEnabled
  /\ \E g \in GradOutputs(Len(hg_out), Len(hg_out[1])) : grad_output' = g
  /\ kernel_log' = Append(kernel_log, "hashgrid_interpolate_backward_cuda")
  /\ IF KernelFlag(needs_input_grad)
     THEN /\ grad_buf' = ZeroGrad(ctx.codebook)
          /\ pending' = Units(ctx.coords, ctx.resolutions)
          /\ bwd_pc' = "scatter"
          /\ UNCHANGED grad_codebook
     ELSE /\ grad_codebook' = ZeroGrad(ctx.codebook)
          /\ bwd_pc' = "done"
          /\ UNCHANGED <<grad_buf, pending>>
  /\ UNCHANGED <<args, needs_input_grad, naive, hg_pc, ctx, hg_out>>

ScatterAdd ==
  /\ bwd_pc = "scatter"
  /\ \E u \in pending :
       /\ grad_buf' = AtomicAdd(grad_buf,
                                UnitSlot(SavedLevels, ctx.codebook_first_idx, u),
                                UnitTerm(SavedLevels, grad_output, ctx.feature_dim, u))
       /\ pending' = pending \ {u}
  /\ UNCHANGED <<args, autograd, naive, accel, bwd_pc, grad_codebook>>

BackwardReturn ==
  /\ bwd_pc = "scatter"
  /\ pending = {}
  /\ grad_codebook' = grad_buf
  /\ bwd_pc' = "done"
  /\ UNCHANGED <<args, autograd, naive, accel, pending, grad_buf>>

\* One level and one sample: 8 concurrent units, which share slots in the
\* hashed regime.
ScatterBatches == {<<p>> : p \in AccelPoints}

InitScatter ==
  /\ InitArgs(ScatterBatches, Schedules(2..MaxRes, 1), [L \in {1} |-> ScatterShapes(L)])
  /\ needs_input_grad \in GradFlags /\ grad_output = None
  /\ NaiveIdle
  /\ hg_pc = "start" /\ ctx = NoCtx /\ kernel_log = <<>> /\ hg_out = None
  /\ BwdIdle

NextScatter == hashgrid \/ BackwardLaunch \/ ScatterAdd \/ BackwardReturn

SpecScatter == InitScatter /\ [][NextScatter]_vars

---------------------------------------------------------------------------
\* Properties of the accelerated path.

\* The sum, over the units of S that map to the 0-based slot s, of component
\* j of weight_k x grad_output_level_slice.
RECURSIVE SumUnits(_, _, _, _, _, _, _)
SumUnits(S, s, j, lv, first_idx, g, F) ==
  IF S = {} THEN 0
  ELSE LET u == CHOOSE v \in S : TRUE
       IN  (IF UnitSlot(lv, first_idx, u) = s THEN UnitTerm(lv, g, F, u)[j] ELSE 0)
             + SumUnits(S \ {u}, s, j, lv, first_idx, g, F)

\* The gradient of section 4.6 for the saved call, over the units S.
Accumulated(S) ==
  [s \in 1..Len(ctx.codebook) |-> [j \in 1..ctx.feature_dim |->
     SumUnits(S, s - 1, j, SavedLevels, ctx.codebook_first_idx, grad_output,
              ctx.feature_dim)]]

AllUnits == Units(ctx.coords, ctx.resolutions)

\* C1: hashgrid returns N feature vectors of width F x (lod_idx+1), the
\* features of levels 0..lod_idx in ascending order and of no other level.
C1_WidthFollowsLod ==
  (hg_pc = "returned" /\ lod_idx < Len(resolutions)) =>
    /\ Len(hg_out) = Len(coords)
    /\ \A b \in 1..Len(coords) :
         /\ Len(hg_out[b]) = FeatDim(codebook) * (lod_idx + 1)
         /\ hg_out[b] = Flatten([l \in 1..(lod_idx + 1) |-> SavedLevels[l].fs_coeffs[b]])

\* What hashgrid returns instead (not a claim's formula): every level of the
\* schedule, whatever lod_idx is.
HashgridReturnsAllLevels ==
  hg_pc = "returned" =>
    /\ Len(hg_out) = Len(coords)
    /\ \A b \in 1..Len(coords) :
         /\ Len(hg_out[b]) = FeatDim(codebook) * Len(resolutions)
         /\ hg_out[b] = Flatten([l \in 1..Len(resolutions) |-> SavedLevels[l].fs_coeffs[b]])

\* C2: backward returns the all-zero codebook gradient whenever the codebook
\* does not require a gradient and the accumulated gradient whenever it does,
\* whatever the flags of the other inputs are.
C2_SkipFollowsCodebookFlag ==
  bwd_pc = "done" =>
    IF needs_input_grad[5]
    THEN grad_codebook = Accumulated(AllUnits)
    ELSE grad_codebook = ZeroGrad(codebook)

\* What decides the skip (not a claim's formula): the flag of coords.
SkipFollowsCoordsFlag ==
  bwd_pc = "done" =>
    IF needs_input_grad[1]
    THEN grad_codebook = Accumulated(AllUnits)
    ELSE grad_codebook = ZeroGrad(codebook)

\* C3: when backward is done, every codebook slot holds the sum of weight_k x
\* grad_output_level_slice over all the units that map to it, under every
\* interleaving of the units; slots no unit maps to hold zero.
C3_ScatterIsAdditive ==
  bwd_pc = "done" => grad_codebook = Accumulated(AllUnits)

\* The scatter itself (not a claim's formula): while it runs and when it is
\* done, the buffer holds the sum over the units that have run.
ScatterAccumulates ==
  /\ bwd_pc = "scatter" => grad_buf = Accumulated(AllUnits \ pending)
  /\ (bwd_pc = "done" /\ KernelFlag(needs_input_grad)) =>
       grad_codebook = Accumulated(AllUnits)

\* Two units of a running scatter map to one slot.
ScatterCollision ==
  /\ bwd_pc = "done" /\ KernelFlag(needs_input_grad)
  /\ \E u \in AllUnits : \E v \in AllUnits :
       /\ u # v
       /\ UnitSlot(SavedLevels, ctx.codebook_first_idx, u)
            = UnitSlot(SavedLevels, ctx.codebook_first_idx, v)
       /\ SavedLevels[u[2]].coeffs[u[1]][u[3]] > 0
       /\ SavedLevels[v[2]].coeffs[v[1]][v[3]] > 0

\* C8: with an odd feature width forward raises before the kernel is invoked
\* and before anything is saved, nothing is returned and no backward runs;
\* with an even width forward does not raise.
C8_OddWidthFailsFast ==
  IF FeatDim(codebook) % 2 = 1
  THEN /\ hg_pc \in {"start", "raised"}
       /\ ctx = NoCtx
       /\ kernel_log = <<>>
       /\ hg_out = None
       /\ bwd_pc = "idle" /\ pending = {} /\ grad_buf = None /\ grad_codebook = None
  ELSE hg_pc # "raised"

C8_Witness ==
  /\ FeatDim(codebook) % 2 = 1
  /\ hg_pc = "raised"

\* The even case of C8 happens too: a backward ran on a saved call.
C8_WitnessEven ==
  /\ FeatDim(codebook) % 2 = 0
  /\ bwd_pc = "done" /\ ctx # NoCtx

\* C10 for hashgrid (not a claim's formula): a call with lod_idx past the
\* last level never returns.
HashgridRejectsLodPastEnd ==
  lod_idx >= Len(resolutions) => hg_pc # "returned"

---------------------------------------------------------------------------
\* Properties of hashgrid_naive, checked under SpecNaive.

Batch == 1..Len(coords)
Vertices(res) == {<<a, b, c>> : a \in 0..(res - 1), b \in 0..(res - 1), c \in 0..(res - 1)}

\* hashgrid_naive as a function of its arguments, for calls that raise nothing.
NaiveResult(cs, res, bitwidth, lod, cb, sizes, first_idx) ==
  Cat([l \in 1..Len(LevelsOf(res, lod)) |->
         LevelLocals(cs, l - 1, res[l], bitwidth, cb, sizes, first_idx).fs_coeffs])

\* A coordinate with every component moved to the nearest of -1 and 1.
Nearest(p) == [a \in 1..3 |-> Min2(Max2(p[a], -CoordDen), CoordDen)]
OutOfRange(p) == \E a \in 1..3 : p[a] < -CoordDen \/ p[a] > CoordDen

\* C4: at every level evaluated, each of the 8 corner coordinates lies in
\* [0, res-1] and each of the 8 slot indices lies in [0, sizes[i]) with
\* sizes[i] = min(res^3, 2^bitwidth), for every resolution, res = 1 included.
C4_IndicesInSegment ==
  (WellFormed /\ lvl # NoLevel) =>
    \A b \in Batch : \A k \in 1..8 :
      /\ \A a \in 1..3 : lvl.cc[b][k][a] >= 0 /\ lvl.cc[b][k][a] <= lvl.res - 1
      /\ lvl.cidx[b][k] >= 0
      /\ lvl.cidx[b][k] < Min2(Pow(lvl.res, 3), Pow(2, codebook_bitwidth))

\* The same for resolutions of 2 and more (not a claim's formula: what is
\* left of C4 without res = 1).
IndicesInSegmentFromRes2 == (lvl # NoLevel /\ lvl.res >= 2) => C4_IndicesInSegment

\* C5: a level with res^3 <= 2^bitwidth (equality included) is indexed by
\* cx + cy*res + cz*res*res, which over the vertices of [0,res-1]^3 is
\* one-to-one and onto [0, res^3); a level with res^3 > 2^bitwidth is indexed
\* by the hash.
C5_DenseBijection ==
  lvl # NoLevel =>
    LET res == lvl.res
        size == Pow(2, codebook_bitwidth)
        V == Vertices(res)
    IN  IF res * res * res <= size
        THEN /\ \A b \in Batch : \A k \in 1..8 :
                  lvl.cidx[b][k] = lvl.cc[b][k][1] + lvl.cc[b][k][2] * res
                                     + lvl.cc[b][k][3] * res * res
             /\ \A v \in V : \A w \in V :
                  Cidx(v, res, size) = Cidx(w, res, size) => v = w
             /\ {Cidx(v, res, size) : v \in V} = 0..(res * res * res - 1)
        ELSE \A b \in Batch : \A k \in 1..8 :
                  lvl.cidx[b][k] = HashIdx(lvl.cc[b][k], size)

\* A level exactly at the boundary res^3 = 2^bitwidth was evaluated, and
\* another one in the hashed regime can be (see C5_WitnessHashed).
C5_Witness ==
  /\ lvl # NoLevel
  /\ lvl.res >= 2
  /\ lvl.res * lvl.res * lvl.res = Pow(2, codebook_bitwidth)
  /\ lvl.error = NoError

\* C6: a call with lod_idx = k >= 1 returns, in its first F x k columns, the
\* whole output of the call with lod_idx = k - 1 on the same arguments, and
\* F more columns.
C6_LodPrefix ==
  (pc = "returned" /\ prev_out # None) =>
    \A b \in Batch :
      /\ Len(prev_out[b]) = FeatDim(codebook) * lod_idx
      /\ Len(out[b]) = FeatDim(codebook) * (lod_idx + 1)
      /\ SubSeq(out[b], 1, FeatDim(codebook) * lod_idx) = prev_out[b]

C6_Witness ==
  /\ pc = "returned" /\ prev_out # None /\ lod_idx >= 1
  /\ \E b \in Batch : out[b] # prev_out[b]

\* C7: weight k is the product, over the axes, of the offset x on an axis
\* where corner k is c000 + 1 and of 1 - x where it is c000; a sample with
\* offset (0,0,0) has weight 1 (UNIT^3) on corner 0, weight 0 on the others,
\* and its level output is the feature stored at corner 0's slot; the
\* coordinate (-1,-1,-1) returns the feature at slot 0 of the level's segment.
C7_CornerWeights ==
  lvl # NoLevel =>
    \A b \in Batch :
      LET x == lvl.x[b]
          one == UNIT * UNIT * UNIT
          Factor(k, a) == IF lvl.cc[b][k][a] = lvl.cc000[b][a] + 1
                          THEN x[a] ELSE UNIT - x[a]
          seg0 == codebook_lod_first_idx[lvl.level + 1]
      IN  /\ \A k \in 1..8 :
               /\ lvl.cc[b][k] = [a \in 1..3 |-> lvl.cc000[b][a]
                                    + (((k - 1) \div Pow(2, 3 - a)) % 2)]
               /\ lvl.coeffs[b][k] = Factor(k, 1) * Factor(k, 2) * Factor(k, 3)
          /\ x = <<0, 0, 0>> =>
               /\ lvl.coeffs[b] = <<one, 0, 0, 0, 0, 0, 0, 0>>
               /\ lvl.error = NoError =>
                    lvl.fs_coeffs[b] =
                      [j \in 1..FeatDim(codebook) |->
                         one * codebook[seg0 + lvl.cidx[b][1] + 1][j]]
          /\ (lvl.error = NoError /\ coords[b] = <<-CoordDen, -CoordDen, -CoordDen>>) =>
               lvl.fs_coeffs[b] =
                 [j \in 1..FeatDim(codebook) |-> one * codebook[seg0 + 1][j]]

\* A sample on a grid vertex, and one strictly inside a cell off its diagonal.
C7_Witness ==
  /\ lvl # NoLevel /\ lvl.error = NoError
  /\ lvl.x[1] = <<0, 0, 0>>
  /\ lvl.level >= 1

C7_WitnessInterior ==
  /\ lvl # NoLevel /\ lvl.error = NoError
  /\ lvl.x[1][1] # lvl.x[1][3] /\ lvl.x[1][1] > 0 /\ lvl.x[1][3] > 0

\* C9: a call whose coordinates leave [-1,1] raises nothing and returns what
\* the call with every such component at the nearest bound returns.
C9_ClipNeverRaises ==
  (WellFormed /\ \E b \in Batch : OutOfRange(coords[b])) =>
    /\ pc # "raised"
    /\ pc = "returned" =>
         out = NaiveResult([b \in Batch |-> Nearest(coords[b])], resolutions,
                           codebook_bitwidth, lod_idx, codebook,
                           codebook_lod_sizes, codebook_lod_first_idx)

\* The equality of C9 alone, in the calls that return (not a claim's formula).
ClipEquivalenceWhenReturned ==
  (WellFormed /\ pc = "returned") =>
    out = NaiveResult([b \in Batch |-> Nearest(coords[b])], resolutions,
                      codebook_bitwidth, lod_idx, codebook,
                      codebook_lod_sizes, codebook_lod_first_idx)

\* C10 (hashgrid_naive): a call whose lod_idx or metadata length disagree
\* with the schedule never returns features and never fails after a level
\* was computed.
C10_MismatchRejectedAtEntry ==
  ~WellFormed =>
    /\ pc # "returned"
    /\ pc = "raised" => feats = <<>>

====
